---- MODULE Spec2Model ----
(***************************************************************************)
(* A model of the web cache scanner: the scan engine (Scanner::scan with   *)
(* its target validation, semaphore and join), the five probe families of  *)
(* CacheTest, the cache oracle of the HTTP client and the finding model.   *)
(*                                                                         *)
(* One request/response round of a family is one step: a family is         *)
(* sequential code that awaits each response before it goes on, and        *)
(* families share nothing but the semaphore.                               *)
(***************************************************************************)
EXTENDS Integers, Sequences, FiniteSets, TLC

(* ------------------------------ bounds -------------------------------- *)

\* Scanner::new is modelled for threads in 0..MaxThreads.
MaxThreads == 2

\* A cache-control value is a string of at most MaxCcLen chunks.
MaxCcLen == 2

\* A request takes 0..MaxElapsed microseconds.
MaxElapsed == 1

\* Scanner::new is given at most MaxLines header lines and MaxLines cookies.
MaxLines == 2

\* Severity::from_cvss is called with 0.0 .. MaxScore tenths.
MaxScore == 100

\* The rate limit given on the command line is in 1..MaxRate.
MaxRate == 2

(* --------------------------- finding model ---------------------------- *)

\* Thresholds that a score has to exceed.
from_cvss_above(score) ==
    IF score > 90 THEN "Critical"
    ELSE IF score > 70 THEN "High"
    ELSE IF score > 40 THEN "Medium"
    ELSE IF score > 1 THEN "Low"
    ELSE "Info"

\* CVSS scores are kept in tenths: 7.5 is 75.
from_cvss(score) ==
    IF score >= 90 THEN "Critical"
    ELSE IF score >= 70 THEN "High"
    ELSE IF score >= 40 THEN "Medium"
    ELSE IF score >= 1 THEN "Low"
    ELSE "Info"

Vulnerability(kind, url, description, severity, poc, cvss) ==
    [vulnerability_type |-> kind, url |-> url, description |-> description,
     severity |-> severity, proof_of_concept |-> poc, cvss_score |-> cvss]

(* ------------------------------ strings ------------------------------- *)

\* A URL scheme is a sequence of characters.
Http == <<"h", "t", "t", "p">>
Https == <<"h", "t", "t", "p", "s">>
Httpx == <<"h", "t", "t", "p", "x">>
Ftp == <<"f", "t", "p">>
Schemes == {Http, Https, Httpx, Ftp}

starts_with(s, prefix) ==
    /\ Len(s) >= Len(prefix)
    /\ SubSeq(s, 1, Len(prefix)) = prefix

\* Response bodies, and the literals each one contains.
Bodies == {"Welcome home", "dyn-2", "evil", "Welcome to evil-domain.com!"}

contains(body, needle) ==
    CASE needle = "evil-domain.com" -> body = "Welcome to evil-domain.com!"
      [] needle = "evil" -> body \in {"evil", "Welcome to evil-domain.com!"}
      [] OTHER -> FALSE

(* --------------------------- response headers ------------------------- *)

\* The cache-control of a response is a sequence of chunks of text: "0xE9"
\* is a byte that is no visible ASCII, and "CRLF" ends a header line, the
\* chunks after it being the value of a further cache-control line.
\* x-cache, cf-cache-status and age are "absent" or their value;
\* cache-control is None or Some(chunks).
None == <<>>
Some(v) == <<v>>

CcChunks ==
    {"no-store", "no-cache", "no-storefront", "max-age=0", ",", " ", "0xE9", "CRLF"}

\* Whether the text of a chunk has the needle as a substring.
chunk_contains(chunk, needle) ==
    \/ chunk = needle
    \/ chunk = "no-storefront" /\ needle = "no-store"

RECURSIVE SeqsUpTo(_, _)
SeqsUpTo(S, n) ==
    IF n = 0 THEN {<<>>}
    ELSE LET shorter == SeqsUpTo(S, n - 1)
         IN shorter \cup {Append(s, c) : s \in {t \in shorter : Len(t) = n - 1}, c \in S}

CcValues == SeqsUpTo(CcChunks, MaxCcLen)

Headers(xs, cfs, ages, ccs) ==
    [x_cache : xs, cf_cache_status : cfs, age : ages, cache_control : ccs]

NoHeaders ==
    [x_cache |-> "absent", cf_cache_status |-> "absent", age |-> "absent",
     cache_control |-> None]

contains_key(headers, name) ==
    CASE name = "x-cache" -> headers.x_cache # "absent"
      [] name = "cf-cache-status" -> headers.cf_cache_status # "absent"
      [] name = "age" -> headers.age # "absent"
      [] name = "cache-control" -> headers.cache_control # None
      [] OTHER -> FALSE

\* HeaderMap::get: the value of the first header line of that name.
RECURSIVE first_value(_)
first_value(chunks) ==
    IF chunks = <<>> \/ Head(chunks) = "CRLF" THEN <<>>
    ELSE <<Head(chunks)>> \o first_value(Tail(chunks))

\* HeaderValue::to_str(..).unwrap_or(""): a value with a byte that is no
\* visible ASCII does not convert, and reads as the empty string.
to_str_or_empty(value) ==
    IF \E i \in 1..Len(value) : value[i] = "0xE9" THEN <<>> ELSE value

\* str::contains: a substring search.  No two chunks put side by side make
\* a needle that neither of them has.
str_contains(s, needle) == \E i \in 1..Len(s) : chunk_contains(s[i], needle)

analyze_cache_headers(headers) ==
    IF /\ headers.cache_control # None
       /\ LET cc_str == to_str_or_empty(first_value(headers.cache_control[1]))
          IN str_contains(cc_str, "no-store") \/ str_contains(cc_str, "no-cache")
    THEN "NotCached"
    ELSE IF contains_key(headers, "x-cache") \/ contains_key(headers, "cf-cache-status")
    THEN "Cached"
    ELSE IF contains_key(headers, "age")
    THEN "Cached"
    ELSE "PotentiallyCached"

\* A decision that reads the cache headers before it compares the bodies.
cache_status_headers_first(headers1, body1, body2) ==
    IF headers1 # NoHeaders THEN analyze_cache_headers(headers1)
    ELSE IF body1 = body2 THEN "PotentiallyCached"
    ELSE "Dynamic"

\* The decision of detect_cache_behavior once both probes have answered.
cache_status(headers1, body1, body2) ==
    LET has_cache_headers ==
            \/ contains_key(headers1, "x-cache")
            \/ contains_key(headers1, "cf-cache-status")
            \/ contains_key(headers1, "age")
            \/ contains_key(headers1, "cache-control")
    IN IF body1 = body2
       THEN IF has_cache_headers
            THEN analyze_cache_headers(headers1)
            ELSE "PotentiallyCached"
       ELSE "Dynamic"

(* --------------------------- probe payloads --------------------------- *)

test_headers ==
    <<"X-Forwarded-Host", "X-Forwarded-Proto", "X-Host", "X-Forwarded-Server",
      "X-HTTP-Host-Override", "X-Original-URL", "X-Rewrite-URL",
      "X-Custom-IP-Authorization">>

cloaking_cases ==
    <<"?param=normal&param=evil", "?param=normal%0d%0aparam=evil",
      "?param=normal%0aparam=evil", "?param=normal%23param=evil",
      "?param=normal%0dparam=evil", "?param=normal%0a%0dparam=evil">>

test_paths ==
    <<"/static/../private/data", "/static/%2e%2e/private/data",
      "/static/..%2fprivate/data", "/static/%252e%252e/private/data",
      "/.%2e/private/data">>

test_extensions == <<".css", ".js", ".png", ".jpg", ".gif">>

SAMPLE_SIZE == 10

key_cases ==
    <<[name |-> "Cache-Key Override", header |-> "X-Cache-Key", value |-> "custom-key"],
      [name |-> "Cache-Control Override", header |-> "Cache-Control", value |-> "max-age=0"],
      [name |-> "Vary Override", header |-> "Vary", value |-> "*"]>>

probing_paths == <<"/admin", "/api", "/internal", "/private", "/config">>

\* Url::set_path parses the path it is given as a URL parser does: a
\* segment that is "..", or ".." with either dot written %2e, is a double-dot
\* segment, and is resolved against the segment before it.  Another segment
\* is kept as it is written, %2f and %25 included.
set_path(path) ==
    CASE path = "/static/../private/data" -> "/private/data"
      [] path = "/static/%2e%2e/private/data" -> "/private/data"
      [] path = "/.%2e/private/data" -> "/private/data"
      [] OTHER -> path

\* The validated target URL, and the target with its path replaced.
Url == "http://target"
with_path(path) == Url \o set_path(path)

(* ------------------------------ findings ------------------------------ *)

UnkeyedFinding(header) ==
    Vulnerability("CachePoisoning", Url \o "/",
        "Unkeyed header " \o header \o " is reflected in the response", "High",
        "curl -H '" \o header \o ": evil-domain.com' " \o Url \o "/", 75)

CloakingFinding(test_case) ==
    Vulnerability("CachePoisoning", Url \o "/",
        "Parameter cloaking vulnerability detected", "High",
        "curl '" \o Url \o "/" \o test_case \o "'", 70)

PathConfusionFinding(path) ==
    Vulnerability("CacheDeception", Url \o "/",
        "Path confusion vulnerability detected", "High",
        "curl '" \o with_path(path) \o "'", 65)

ContentTypeFinding(ext) ==
    Vulnerability("CacheDeception", Url \o "/",
        "Content-Type confusion with " \o ext \o " extension", "Medium",
        "curl '" \o with_path("/" \o ext) \o "'", 55)

TimingFinding(avg_cached, avg_uncached) ==
    Vulnerability("CacheTiming", Url \o "/",
        "Significant timing difference detected between cached ("
            \o ToString(avg_cached) \o " us) and uncached ("
            \o ToString(avg_uncached) \o " us) responses", "Medium",
        "Compare timing: curl '" \o Url \o "/' vs curl '" \o Url \o "/?cb=1'", 43)

KeyManipulationFinding(case) ==
    Vulnerability("CacheKeyManipulation", Url \o "/",
        case.name \o " vulnerability detected", "High",
        "curl -H '" \o case.header \o ": " \o case.value \o "' " \o Url \o "/", 68)

ProbingFinding(path) ==
    Vulnerability("CacheProbing", with_path(path),
        "Sensitive path " \o path \o " is being cached", "High",
        "curl '" \o with_path(path) \o "'", 72)

(* ------------------------------ the target ---------------------------- *)

\* What the target answers.  A wild target (any) answers each request with
\* any response, or fails it; the others answer as a function of the request.
\*   live: how the liveness GET can end: a response of a 2xx status, a
\*         response of another status (non2xx), a transport error, a timeout
\*   shaky: the requests <<probe, payload, sub>> that may fail in transport
\*   up: whether the target answers 2xx at all
\*   reflect, cloak: the unkeyed headers / cloaking suffixes echoed in the body
\*   paths: the confusion paths answered 2xx
\*   exts: the extensions answered 2xx with a content type that does not name them
\*   hdr, dyn: the cache headers of the target URL; a body that differs per request
\*   sens, sensHdr: the sensitive paths answered 2xx, and their cache headers
\*   tPlain, tBust: the time of a plain and of a cache-busting request
Hit == [NoHeaders EXCEPT !.x_cache = "HIT"]
NoStore == [NoHeaders EXCEPT !.cache_control = Some(<<"no-store">>)]

Quiet ==
    [any |-> FALSE, live |-> {"response"}, shaky |-> {}, up |-> TRUE, reflect |-> {}, cloak |-> {},
     paths |-> {}, exts |-> {}, hdr |-> NoHeaders, dyn |-> FALSE, sens |-> {},
     sensHdr |-> NoHeaders, tPlain |-> 1, tBust |-> 1]

CachedSite ==
    [Quiet EXCEPT !.reflect = {1}, !.cloak = {2}, !.paths = {1, 2, 5}, !.exts = {2},
                  !.hdr = Hit, !.sens = {1, 3}, !.sensHdr = Hit, !.tPlain = 0]

FlakySite ==
    [CachedSite EXCEPT !.live = {"response", "error", "timeout"},
                       !.shaky = {<<"cloaking", 1, 0>>, <<"ctype", 2, 0>>,
                                  <<"timing", 12, 0>>, <<"keymanip", 2, 1>>,
                                  <<"probing", 3, 2>>},
                       !.reflect = {}, !.exts = {}]

NoStoreSite ==
    [Quiet EXCEPT !.live = {"non2xx"}, !.up = FALSE, !.reflect = {2}, !.cloak = {1}, !.hdr = NoStore,
                  !.dyn = TRUE, !.sensHdr = NoStore]

Wild == [Quiet EXCEPT !.any = TRUE]

\* A target that echoes X-Forwarded-Host and nothing else.
ReflectSite == [Quiet EXCEPT !.reflect = {1}]

Targets == {Quiet, CachedSite, FlakySite, NoStoreSite}

\* The cache headers a wild target puts on the responses probed by a family.
ProbeHeaders ==
    {NoHeaders, Hit, NoStore,
     [Hit EXCEPT !.cache_control = Some(<<"no-store">>)],
     [NoHeaders EXCEPT !.age = "60"],
     [NoHeaders EXCEPT !.cache_control = Some(<<"max-age=0">>)]}

(* ------------------------------- state -------------------------------- *)

Families == {"Poisoning", "Deception", "Timing", "KeyManipulation", "Probing"}

\* test_futures, in the order scan builds it.
test_futures == <<"Poisoning", "Deception", "Timing", "KeyManipulation", "Probing">>

VARIABLES
    threads,         \* Scanner.threads
    permits,         \* the permits available in Scanner.semaphore
    target,          \* the target string given to scan: [parses, scheme]
    env,             \* the behaviour of the target
    phase,           \* where scan is: start, liveness, running, returned, failed
    verr,            \* the error validate_target failed with, or "none"
    requests_sent,   \* the local requests_sent of scan
    result,          \* the ScanResult returned, or None
    pc,              \* per family: idle, acquire, the probe it is in, ok, err
    idx,             \* per family: the payload the probe is at
    sub,             \* per family: 0 the payload's own request is next,
                     \*             1 probe A of the oracle, 2 probe B
    loc,             \* per family: the oracle's headers1 and body1, the status
                     \*             of the payload's own response
    found,           \* per family: the vulnerabilities vector of the entry point
    inner,           \* per family: the vector of test_cache_key_manipulation
    cached_times,    \* the sum of the plain samples of test_timing_differences
    uncached_times,  \* the sum of its cache-busting samples (both are locals
                     \* of the probe: 0 before it runs and when it has
                     \* failed, the sums it decided on when it has returned)
    livenessGets,    \* the GETs validate_target issued
    probeGets,       \* the GETs the families issued
    completed,       \* the log of the families whose entry point has
                     \* returned, in the order in which they returned,
                     \* or None when no log is kept
    oracle,          \* a direct call of detect_cache_behavior
    client,          \* a ClientBuilder, the Client built from it, and the
                     \* headers of the last request the Client sent
    severity_call,   \* a call of Severity::from_cvss: score and result
    rate_limit,      \* the rate_limit argument of the scan command
    window,          \* the GETs the scan issued since the running second
                     \* began, counted up to rate_limit + 1
    warned,          \* whether validate_target logged its warning
    first            \* the finding kinds of an earlier scan by this
                     \* Scanner, or None

vars ==
    <<threads, permits, target, env, phase, verr, requests_sent, result, pc, idx,
      sub, loc, found, inner, cached_times, uncached_times, livenessGets,
      probeGets, completed, oracle, client, severity_call, rate_limit, window, warned,
      first>>

scanVars == <<phase, verr, requests_sent, result, livenessGets, warned>>
timingVars == <<cached_times, uncached_times>>
\* What is outside the scan: the direct calls, and the arguments main discards.
otherCalls == <<oracle, client, severity_call, rate_limit, first>>
fixedVars == <<threads, target, env, otherCalls>>

NoClient == [at |-> "none"]
NoSeverityCall == [at |-> "none"]

NoLoc == [headers1 |-> NoHeaders, body1 |-> "", success |-> FALSE]

TargetStrings ==
    {[parses |-> FALSE, scheme |-> <<>>]} \cup [parses : {TRUE}, scheme : Schemes]

ScanLocals ==
    /\ idx = [f \in Families |-> 1]
    /\ sub = [f \in Families |-> 0]
    /\ loc = [f \in Families |-> NoLoc]
    /\ found = [f \in Families |-> <<>>]
    /\ inner = [f \in Families |-> <<>>]
    /\ cached_times = 0
    /\ uncached_times = 0
    /\ livenessGets = 0
    /\ probeGets = 0
    /\ requests_sent = 0
    /\ result = None
    /\ verr = "none"
    /\ window = 0
    /\ warned = FALSE
    /\ first = None

InitLocals == ScanLocals /\ completed = None

\* No call but the scan is under way.
NoOracle == oracle = [at |-> "idle"]
NoOtherCalls ==
    /\ NoOracle
    /\ client = NoClient
    /\ severity_call = NoSeverityCall

HttpTarget == [parses |-> TRUE, scheme |-> Http]

\* The scans modelled: every target string against the quiet target, and
\* an http URL against each target.
Scans == (TargetStrings \X {Quiet}) \cup ({HttpTarget} \X Targets)

\* Scanner::new, and scan called on a target.
Init ==
    /\ threads \in 0..MaxThreads
    /\ permits = threads
    /\ \E scan \in Scans : target = scan[1] /\ env = scan[2]
    /\ phase = "start"
    /\ pc = [f \in Families |-> "idle"]
    /\ rate_limit = MaxRate
    /\ InitLocals
    /\ NoOtherCalls

(* ------------------------------ validation ---------------------------- *)

\* The window once the scan has issued one more GET.  Nothing of the scan
\* waits for a token before it sends.
Issued == IF window <= rate_limit THEN window + 1 ELSE window

\* Url::parse and the scheme check of validate_target; the liveness GET is
\* issued when both pass.
validate_target ==
    /\ phase = "start"
    /\ IF ~target.parses
       THEN /\ phase' = "failed"
            /\ verr' = "Invalid URL provided"
            /\ UNCHANGED <<livenessGets, window>>
       ELSE IF ~starts_with(target.scheme, Http)
       THEN /\ phase' = "failed"
            /\ verr' = "Only HTTP/HTTPS URLs are supported"
            /\ UNCHANGED <<livenessGets, window>>
       ELSE /\ phase' = "liveness"
            /\ livenessGets' = livenessGets + 1
            /\ window' = Issued
            /\ UNCHANGED verr
    /\ UNCHANGED <<threads, permits, target, env, requests_sent, result, pc, idx,
                   sub, loc, found, inner, cached_times, uncached_times,
                   probeGets, completed, warned, otherCalls>>

\* How the liveness GET can end.  The HTTP client sends nothing for a URL
\* whose scheme is neither http nor https: the request fails.
LivenessOutcomes ==
    IF target.scheme \notin {Http, Https} THEN {"error"}
    ELSE env.live

\* A scan that goes on to its families whatever validate_target returned.
SubmittedAnyway(outcome) == [f \in Families |-> "acquire"]

\* A validation that takes a response of a status other than 2xx for a
\* failure.
validated_2xx_only(outcome) == outcome = "response"

\* validate_target returns Ok(url) when the liveness GET got a response,
\* "response" of a 2xx status and "non2xx" of any other; a timeout and a
\* transport error return Err.
validated(outcome) == outcome \in {"response", "non2xx"}

\* scan builds and awaits the family futures only when validate_target
\* returned Ok; on Err the ? operator returns from scan.
Submitted(outcome) ==
    IF validated(outcome) THEN [f \in Families |-> "acquire"] ELSE pc

\* The liveness GET ends: any response, whatever its status, validates the
\* target, a status other than 2xx being logged as a warning; scan counts
\* one request and submits the five families.
liveness_response ==
    /\ phase = "liveness"
    /\ \E outcome \in LivenessOutcomes :
         IF validated(outcome)
         THEN /\ phase' = "running"
              /\ warned' = (outcome # "response")
              /\ requests_sent' = requests_sent + 1
              /\ pc' = Submitted(outcome)
              /\ UNCHANGED verr
         ELSE /\ phase' = "failed"
              /\ verr' = IF outcome = "timeout" THEN "Connection timed out"
                         ELSE "Failed to connect to target"
              /\ pc' = Submitted(outcome)
              /\ UNCHANGED <<requests_sent, warned>>
    /\ UNCHANGED <<threads, permits, target, env, result, idx, sub, loc, found,
                   inner, cached_times, uncached_times, livenessGets, probeGets, completed,
                   window, otherCalls>>

(* ------------------------------ responses ----------------------------- *)

\* Whether the send of the request family f is at succeeds.
SendOk(f) ==
    IF env.any \/ <<pc[f], idx[f], sub[f]>> \in env.shaky THEN BOOLEAN ELSE {TRUE}

\* The responses to a request whose body the probe searches for a literal:
\* sent, whether the body could be read as text, the body.
BodyResponses(f, echoed, echo) ==
    IF env.any THEN [sent : BOOLEAN, text : BOOLEAN, body : Bodies]
    ELSE [sent : SendOk(f), text : {TRUE},
          body : {IF echoed THEN echo ELSE "Welcome home"}]

\* The responses to a request of which the probe reads the status.
StatusResponses(f, answered) ==
    IF env.any THEN [sent : BOOLEAN, success : BOOLEAN]
    ELSE [sent : SendOk(f), success : {answered /\ env.up}]

ContentTypes ==
    {"", "text/html", "text/css", "application/json", "image/png", "image/jpeg"}

\* content_type.contains(token), for the tokens css, js, png, jpg, gif.
content_type_contains(content_type, token) ==
    \/ content_type = "text/css" /\ token = "css"
    \/ content_type = "application/json" /\ token = "js"
    \/ content_type = "image/png" /\ token = "png"

trim_dot(ext) ==
    CASE ext = ".css" -> "css" [] ext = ".js" -> "js" [] ext = ".png" -> "png"
      [] ext = ".jpg" -> "jpg" [] ext = ".gif" -> "gif"

ContentTypeResponses(f) ==
    IF env.any THEN [sent : BOOLEAN, success : BOOLEAN, content_type : ContentTypes]
    ELSE [sent : SendOk(f), success : {(idx[f] \in env.exts) /\ env.up},
          content_type : {"text/html"}]

TimingResponses(f, busting) ==
    IF env.any THEN [sent : BOOLEAN, elapsed : 0..MaxElapsed]
    ELSE [sent : SendOk(f), elapsed : {IF busting THEN env.tBust ELSE env.tPlain}]

\* Probe A of the oracle on the URL family f is at.
ProbeAResponses(f) ==
    IF env.any
    THEN [sent : BOOLEAN, text : BOOLEAN, headers : ProbeHeaders,
          body : {"Welcome home", "dyn-2"}]
    ELSE [sent : SendOk(f), text : {TRUE},
          headers : {IF pc[f] = "keymanip" THEN env.hdr
                     ELSE IF idx[f] \in env.sens THEN env.sensHdr ELSE NoHeaders},
          body : {"Welcome home"}]

ProbeBResponses(f) ==
    IF env.any THEN [sent : BOOLEAN, text : BOOLEAN, body : {"Welcome home", "dyn-2"}]
    ELSE [sent : SendOk(f), text : {TRUE},
          body : {IF env.dyn THEN "dyn-2" ELSE "Welcome home"}]

(* ---------------------------- probe families -------------------------- *)

\* The first probe of each entry point of CacheTest.
FirstProbe(f) ==
    CASE f = "Poisoning" -> "unkeyed"
      [] f = "Deception" -> "path"
      [] f = "Timing" -> "timing"
      [] f = "KeyManipulation" -> "keymanip"
      [] f = "Probing" -> "probing"

\* What follows a probe in its entry point: the next probe, or Ok(vulnerabilities).
After(probe) ==
    CASE probe = "unkeyed" -> "cloaking"
      [] probe = "cloaking" -> "keymanip"
      [] probe = "path" -> "ctype"
      [] OTHER -> "ok"

Finished(f) == pc[f] \in {"ok", "err"}
Holding(f) == pc[f] \notin {"idle", "acquire", "ok", "err", "abandoned", "dropped"}

\* An acquire that does not wait for a permit.
AcquireWithoutPermit == TRUE

\* self.semaphore.acquire().await completes when a permit is available.
CanAcquire == permits > 0

\* run_test: the family takes its permit and calls its entry point.
Acquire(f) ==
    /\ pc[f] = "acquire"
    /\ CanAcquire
    /\ permits' = permits - 1
    /\ pc' = [pc EXCEPT ![f] = FirstProbe(f)]
    /\ UNCHANGED <<threads, target, env, phase, verr, requests_sent, result, idx,
                   sub, loc, found, inner, cached_times, uncached_times,
                   livenessGets, probeGets, completed, window, warned, otherCalls>>

\* A run_test that gives its permit back only when the entry point
\* returned Ok.
released_on_ok(npc) == IF npc = "ok" THEN 1 ELSE 0

\* run_test keeps the Result of the entry point, drops the permit and then
\* returns the Result: the permit is given back on Ok and on Err alike.
released(npc) == IF npc \in {"ok", "err"} THEN 1 ELSE 0

\* One request of family f is answered and the family goes on to npc.  The
\* permit is dropped when the entry point returns (ok, or err by ?); nothing
\* is added to the requests_sent of scan.  The future of f is then ready,
\* which the log of completions records when one is kept.
Round(f, npc, nidx, nsub, nloc, nfound, ninner) ==
    /\ pc' = [pc EXCEPT ![f] = npc]
    /\ idx' = [idx EXCEPT ![f] = nidx]
    /\ sub' = [sub EXCEPT ![f] = nsub]
    /\ loc' = [loc EXCEPT ![f] = nloc]
    /\ found' = [found EXCEPT ![f] = nfound]
    /\ inner' = [inner EXCEPT ![f] = ninner]
    /\ permits' = permits + released(npc)
    /\ probeGets' = probeGets + 1
    /\ completed' = IF completed # None /\ npc \in {"ok", "err"}
                     THEN Some(Append(completed[1], f))
                     ELSE completed
    /\ window' = Issued
    /\ UNCHANGED <<scanVars, fixedVars>>

\* A transport error leaves the entry point by the ? operator: its locals
\* are dropped.  found keeps what the entry point had collected, which is
\* dropped with them, to tell what it lost.
Fail(f) == Round(f, "err", 1, 0, NoLoc, found[f], <<>>)

\* The probe of family f goes on to its next payload, or ends without a find.
NextPayload(f, last) ==
    IF idx[f] < last
    THEN Round(f, pc[f], idx[f] + 1, 0, NoLoc, found[f], inner[f])
    ELSE Round(f, After(pc[f]), 1, 0, NoLoc, found[f], inner[f])

\* The probe of family f ends with a find.
Find(f, vuln) ==
    Round(f, After(pc[f]), 1, 0, NoLoc, Append(found[f], vuln), inner[f])

test_unkeyed_headers(f) ==
    /\ pc[f] = "unkeyed"
    /\ \E r \in BodyResponses(f, idx[f] \in env.reflect, "Welcome to evil-domain.com!") :
         IF ~r.sent THEN Fail(f)
         ELSE IF r.text /\ contains(r.body, "evil-domain.com")
         THEN Find(f, UnkeyedFinding(test_headers[idx[f]]))
         ELSE NextPayload(f, Len(test_headers))
    /\ UNCHANGED timingVars

test_parameter_cloaking(f) ==
    /\ pc[f] = "cloaking"
    /\ \E r \in BodyResponses(f, idx[f] \in env.cloak, "evil") :
         IF ~r.sent THEN Fail(f)
         ELSE IF r.text /\ contains(r.body, "evil")
         THEN Find(f, CloakingFinding(cloaking_cases[idx[f]]))
         ELSE NextPayload(f, Len(cloaking_cases))
    /\ UNCHANGED timingVars

test_path_confusion(f) ==
    /\ pc[f] = "path"
    /\ \E r \in StatusResponses(f, idx[f] \in env.paths) :
         IF ~r.sent THEN Fail(f)
         ELSE IF r.success
         THEN Find(f, PathConfusionFinding(test_paths[idx[f]]))
         ELSE NextPayload(f, Len(test_paths))
    /\ UNCHANGED timingVars

test_content_type_confusion(f) ==
    /\ pc[f] = "ctype"
    /\ \E r \in ContentTypeResponses(f) :
         LET ext == test_extensions[idx[f]]
         IN IF ~r.sent THEN Fail(f)
            ELSE IF r.success /\ ~content_type_contains(r.content_type, trim_dot(ext))
            THEN Find(f, ContentTypeFinding(ext))
            ELSE NextPayload(f, Len(test_extensions))
    /\ UNCHANGED timingVars

\* (avg_cached as f64 / avg_uncached as f64) < 0.5: a division by zero
\* gives an infinity or a NaN, which is not below 0.5.
ratio_below_half(avg_cached, avg_uncached) ==
    /\ avg_uncached > 0
    /\ 2 * avg_cached < avg_uncached

\* A probe that takes its plain and its cache-busting samples in turn.
timing_query_in_turn(i) ==
    IF i % 2 = 1 THEN None ELSE Some((i \div 2) - 1)

\* The query of the i-th request of test_timing_differences: none for the
\* SAMPLE_SIZE requests of the first loop, cb = 0, 1, ... for those of the
\* second loop.
timing_query(i) ==
    IF i <= SAMPLE_SIZE THEN None ELSE Some(i - SAMPLE_SIZE - 1)

\* One sample of test_timing_differences: SAMPLE_SIZE plain requests, then
\* SAMPLE_SIZE requests with cb = 0, 1, ...; the averages after the last.
test_timing_differences(f) ==
    /\ pc[f] = "timing"
    /\ \E r \in TimingResponses(f, timing_query(idx[f]) # None) :
         IF ~r.sent
         THEN /\ Fail(f)
              /\ cached_times' = 0
              /\ uncached_times' = 0
         ELSE IF timing_query(idx[f]) = None
         THEN /\ cached_times' = cached_times + r.elapsed
              /\ UNCHANGED uncached_times
              /\ Round(f, "timing", idx[f] + 1, 0, NoLoc, found[f], inner[f])
         ELSE IF idx[f] < 2 * SAMPLE_SIZE
         THEN /\ uncached_times' = uncached_times + r.elapsed
              /\ UNCHANGED cached_times
              /\ Round(f, "timing", idx[f] + 1, 0, NoLoc, found[f], inner[f])
         ELSE LET avg_cached == cached_times \div SAMPLE_SIZE
                  avg_uncached == (uncached_times + r.elapsed) \div SAMPLE_SIZE
              IN /\ cached_times' = cached_times
                 /\ uncached_times' = uncached_times + r.elapsed
                 /\ IF ratio_below_half(avg_cached, avg_uncached)
                    THEN Find(f, TimingFinding(avg_cached, avg_uncached))
                    ELSE NextPayload(f, 2 * SAMPLE_SIZE)

\* The responses to the request that carries an override header: whatever
\* the target, it may answer it with any status and body.
OverrideResponses(f) == [sent : SendOk(f), success : BOOLEAN, body : Bodies]

\* A probe that keeps the status of the override response for its decision.
override_status_kept(l, r) == [l EXCEPT !.success = r.success]

\* let response = ...get_with_headers(..).await?: response is not read, and
\* the locals of the probe are what they were.
after_override(l, r) == l

\* The request of test_cache_key_manipulation that carries the override
\* header; its response is not read.
key_manipulation_request(f) ==
    /\ pc[f] = "keymanip"
    /\ sub[f] = 0
    /\ \E r \in OverrideResponses(f) :
         IF ~r.sent THEN Fail(f)
         ELSE Round(f, pc[f], idx[f], 1, after_override(loc[f], r), found[f], inner[f])
    /\ UNCHANGED timingVars

\* The request of test_cache_probing for a sensitive path.
probing_request(f) ==
    /\ pc[f] = "probing"
    /\ sub[f] = 0
    /\ \E r \in StatusResponses(f, idx[f] \in env.sens) :
         IF ~r.sent THEN Fail(f)
         ELSE Round(f, pc[f], idx[f], 1, [loc[f] EXCEPT !.success = r.success],
                    found[f], inner[f])
    /\ UNCHANGED timingVars

\* What became of a probe of the oracle: the request failed, the body
\* could not be read as text, or both went well.
outcome(r) ==
    IF ~r.sent THEN "send failed" ELSE IF ~r.text THEN "read failed" ELSE "ok"

\* An oracle that goes on with what it has when a body cannot be read.
probe_failed_to_send(r) == ~r.sent

\* self.get(url).await? and resp.text().await?: either error leaves
\* detect_cache_behavior, and by the ? of its caller the probe as well.
probe_failed(r) == ~r.sent \/ ~r.text

\* detect_cache_behavior, called by a family: probe A.
detect_probe_a(f) ==
    /\ pc[f] \in {"keymanip", "probing"}
    /\ sub[f] = 1
    /\ \E r \in ProbeAResponses(f) :
         IF probe_failed(r) THEN Fail(f)
         ELSE Round(f, pc[f], idx[f], 2,
                    [loc[f] EXCEPT !.headers1 = r.headers, !.body1 = r.body],
                    found[f], inner[f])
    /\ UNCHANGED timingVars

\* test_cache_poisoning binds the vector that test_cache_key_manipulation
\* returns to the pattern Some(vuln) and pushes vuln: one vulnerability of
\* the vector is pushed, or all of them.
PushedByPoisoning(vulns) ==
    IF vulns = <<>> THEN {<<>>} ELSE {<<vulns[1]>>, vulns}

\* What an entry point has in its vector when test_cache_key_manipulation
\* has returned vulns to it.
KeyManipulationReturns(f, vulns) ==
    IF f = "KeyManipulation" THEN {vulns}
    ELSE {found[f] \o pushed : pushed \in PushedByPoisoning(vulns)}

\* A probe that reports whatever the oracle did not rule out.
is_not_ruled_out(cache_behavior) == cache_behavior \in {"Cached", "PotentiallyCached"}

\* cache_behavior == CacheBehavior::Cached: the one classification
\* on which test_cache_key_manipulation and test_cache_probing report.
is_cached(cache_behavior) == cache_behavior = "Cached"

\* Probe B of the oracle, its decision, and what test_cache_key_manipulation
\* does with it.
key_manipulation_classify(f) ==
    /\ pc[f] = "keymanip"
    /\ sub[f] = 2
    /\ \E r \in ProbeBResponses(f) :
         IF probe_failed(r) THEN Fail(f)
         ELSE LET cache_behavior == cache_status(loc[f].headers1, loc[f].body1, r.body)
                  vulns == IF is_cached(cache_behavior)
                           THEN Append(inner[f], KeyManipulationFinding(key_cases[idx[f]]))
                           ELSE inner[f]
              IN IF idx[f] < Len(key_cases)
                 THEN Round(f, pc[f], idx[f] + 1, 0, NoLoc, found[f], vulns)
                 ELSE \E returned \in KeyManipulationReturns(f, vulns) :
                         Round(f, "ok", 1, 0, NoLoc, returned, <<>>)
    /\ UNCHANGED timingVars

\* Probe B of the oracle, its decision, and what test_cache_probing does
\* with it.
probing_classify(f) ==
    /\ pc[f] = "probing"
    /\ sub[f] = 2
    /\ \E r \in ProbeBResponses(f) :
         IF probe_failed(r) THEN Fail(f)
         ELSE LET cache_behavior == cache_status(loc[f].headers1, loc[f].body1, r.body)
              IN IF loc[f].success /\ is_cached(cache_behavior)
                 THEN IF idx[f] < Len(probing_paths)
                      THEN Round(f, pc[f], idx[f] + 1, 0, NoLoc,
                                 Append(found[f], ProbingFinding(probing_paths[idx[f]])),
                                 inner[f])
                      ELSE Find(f, ProbingFinding(probing_paths[idx[f]]))
                 ELSE NextPayload(f, Len(probing_paths))
    /\ UNCHANGED timingVars

(* ------------------------------- the scan ----------------------------- *)

\* A loop that appends what a failed family had collected as well.
CollectedDespiteError(f) == found[f]

\* What the loop over the results of join_all appends for family f.
Collected(f) == IF pc[f] = "ok" THEN found[f] ELSE <<>>

\* A join that is ready as soon as one family has its result.
first_ready == \E f \in Families : Finished(f)

\* join_all(test_futures).await completes when every family has its result.
join_all_ready == \A f \in Families : Finished(f)

RECURSIVE Gather(_)
Gather(n) ==
    IF n = 0 THEN <<>> ELSE Gather(n - 1) \o Collected(test_futures[n])

\* join_all has every result; scan appends the vectors of the families that
\* returned Ok, in the order of test_futures, and returns the ScanResult.
Join ==
    /\ phase = "running"
    /\ join_all_ready
    /\ phase' = "returned"
    /\ result' = Some([vulnerabilities |-> Gather(Len(test_futures)),
                       requests_sent |-> requests_sent])
    /\ UNCHANGED <<threads, permits, target, env, verr, requests_sent, pc, idx,
                   sub, loc, found, inner, cached_times, uncached_times,
                   livenessGets, probeGets, completed, window, warned, otherCalls>>

FamilyStep(f) ==
    \/ Acquire(f)
    \/ test_unkeyed_headers(f)
    \/ test_parameter_cloaking(f)
    \/ test_path_confusion(f)
    \/ test_content_type_confusion(f)
    \/ test_timing_differences(f)
    \/ key_manipulation_request(f)
    \/ probing_request(f)
    \/ detect_probe_a(f)
    \/ key_manipulation_classify(f)
    \/ probing_classify(f)

Next ==
    \/ validate_target
    \/ liveness_response
    \/ \E f \in Families : FamilyStep(f)
    \/ Join

Spec == Init /\ [][Next]_vars

\* The runtime polls every future of join_all that can make progress.
FairSpec == Spec /\ WF_vars(Next)

(* ------------------------- the order of completion -------------------- *)

\* A scan of an http target during which the completions of the families
\* are logged.
OrderInit ==
    /\ threads \in 1..MaxThreads
    /\ permits = threads
    /\ target = HttpTarget
    /\ env \in Targets
    /\ phase = "start"
    /\ pc = [f \in Families |-> "idle"]
    /\ rate_limit = MaxRate
    /\ ScanLocals
    /\ completed = Some(<<>>)
    /\ NoOtherCalls

OrderSpec == OrderInit /\ [][Next]_vars

(* ----------------------------- the rate limit ------------------------- *)

\* The scan command is run with a rate limit, against a target that answers
\* every request.
RateInit ==
    /\ threads \in 1..MaxThreads
    /\ permits = threads
    /\ target = HttpTarget
    /\ env = Quiet
    /\ phase = "start"
    /\ pc = [f \in Families |-> "idle"]
    /\ rate_limit \in 1..MaxRate
    /\ InitLocals
    /\ NoOtherCalls

\* A second of the clock ends while the scan is under way, and the next
\* begins.  No request waits for it.
second_passes ==
    /\ phase \in {"liveness", "running"}
    /\ window > 0
    /\ window' = 0
    /\ UNCHANGED <<threads, permits, target, env, phase, verr, requests_sent, result,
                   pc, idx, sub, loc, found, inner, cached_times, uncached_times,
                   livenessGets, probeGets, completed, warned, otherCalls>>

RateNext == Next \/ second_passes

RateSpec == RateInit /\ [][RateNext]_vars

(* ------------------------------ a second scan ------------------------- *)

\* The kinds of the findings of a vector.
Kinds(vulnerabilities) ==
    {vulnerabilities[i].vulnerability_type : i \in 1..Len(vulnerabilities)}

\* The targets whose response is a function of the request.
DeterministicTargets == {Quiet, CachedSite}

TwiceInit ==
    /\ threads \in 1..MaxThreads
    /\ permits = threads
    /\ target = HttpTarget
    /\ env \in DeterministicTargets
    /\ phase = "start"
    /\ pc = [f \in Families |-> "idle"]
    /\ rate_limit = MaxRate
    /\ InitLocals
    /\ NoOtherCalls

\* scan is called again on the Scanner, for the same target, after it has
\* returned: its locals are new, the Scanner and its semaphore are the same.
scan_again ==
    /\ phase = "returned"
    /\ first = None
    /\ first' = Some(Kinds(result[1].vulnerabilities))
    /\ phase' = "start"
    /\ pc' = [f \in Families |-> "idle"]
    /\ found' = [f \in Families |-> <<>>]
    /\ result' = None
    /\ requests_sent' = 0
    /\ livenessGets' = 0
    /\ probeGets' = 0
    /\ completed' = IF completed = None THEN None ELSE Some(<<>>)
    /\ cached_times' = 0
    /\ uncached_times' = 0
    /\ warned' = FALSE
    /\ UNCHANGED <<threads, permits, target, env, verr, idx, sub, loc, inner,
                   window, oracle, client, severity_call, rate_limit>>

TwiceNext == Next \/ scan_again

TwiceSpec == TwiceInit /\ [][TwiceNext]_vars

(* ----------------------------- the severity --------------------------- *)

\* Severity::from_cvss is called with a score.
SeverityInit ==
    /\ threads = 1
    /\ permits = threads
    /\ target = HttpTarget
    /\ env = Quiet
    /\ phase = "severity"
    /\ pc = [f \in Families |-> "idle"]
    /\ rate_limit = MaxRate
    /\ InitLocals
    /\ NoOracle
    /\ client = NoClient
    /\ \E score \in 0..MaxScore : severity_call = [at |-> "called", score |-> score]

severity_returns ==
    /\ severity_call.at = "called"
    /\ severity_call' = [at |-> "returned", score |-> severity_call.score,
                         severity |-> from_cvss(severity_call.score)]
    /\ UNCHANGED <<threads, permits, target, env, phase, verr, requests_sent, result,
                   pc, idx, sub, loc, found, inner, cached_times, uncached_times,
                   livenessGets, probeGets, completed, oracle, client, rate_limit, window,
                   warned, first>>

SeverityNext == severity_returns

SeveritySpec == SeverityInit /\ [][SeverityNext]_vars

(* ------------------------------ cancellation -------------------------- *)

\* Permits that stay taken when their futures are dropped.
permits_forgotten == permits

\* The permit of run_test is a local of its future: dropping the future
\* drops the SemaphorePermit, which gives the permit back.
permits_after_drop == permits + Cardinality({f \in Families : Holding(f)})

\* The caller drops the future of scan before it has returned.  The future
\* owns the liveness request or, through join_all, the futures of the five
\* families with their requests in flight and their locals: all are dropped
\* with it, and none is polled again.
cancel ==
    /\ phase \in {"start", "liveness", "running"}
    /\ phase' = "cancelled"
    /\ pc' = [f \in Families |->
                IF Holding(f) THEN "abandoned"
                ELSE IF pc[f] = "idle" THEN "idle" ELSE "dropped"]
    /\ permits' = permits_after_drop
    /\ idx' = [f \in Families |-> 1]
    /\ sub' = [f \in Families |-> 0]
    /\ loc' = [f \in Families |-> NoLoc]
    /\ found' = [f \in Families |-> <<>>]
    /\ inner' = [f \in Families |-> <<>>]
    /\ cached_times' = 0
    /\ uncached_times' = 0
    /\ completed' = IF completed = None THEN None ELSE Some(<<>>)
    /\ UNCHANGED <<threads, target, env, verr, requests_sent, result, livenessGets,
                   probeGets, window, warned, otherCalls>>

CancelNext == Next \/ cancel

CancelSpec == Init /\ [][CancelNext]_vars

(* ---------------------- the individual entry points ------------------- *)

\* One entry point of ScannerTrait (test_cache_poisoning, ...) is called on
\* a validated URL, against a target that may answer anything.
ProbeInit ==
    /\ threads \in 0..MaxThreads
    /\ permits = threads
    /\ target = HttpTarget
    /\ env = Wild
    /\ phase = "probe"
    /\ rate_limit = MaxRate
    /\ \E f \in Families : pc = [g \in Families |-> IF g = f THEN "acquire" ELSE "idle"]
    /\ InitLocals
    /\ NoOtherCalls

ProbeNext == \E f \in Families : FamilyStep(f)

ProbeSpec == ProbeInit /\ [][ProbeNext]_vars

\* One entry point is called against a target that answers as a function
\* of the request, or against one that may answer anything.  One of the
\* targets gives its first positive answer to a later payload of each list.
EntryInit ==
    /\ threads \in 1..MaxThreads
    /\ permits = threads
    /\ target = HttpTarget
    /\ env \in {Wild, Quiet, ReflectSite, CachedSite,
                [Quiet EXCEPT !.reflect = {3, 5}, !.cloak = {4, 6},
                              !.paths = {3, 4}, !.exts = {3, 4}]}
    /\ phase = "probe"
    /\ rate_limit = MaxRate
    /\ \E f \in Families : pc = [g \in Families |-> IF g = f THEN "acquire" ELSE "idle"]
    /\ InitLocals
    /\ NoOtherCalls

EntrySpec == EntryInit /\ [][ProbeNext]_vars

(* ------------------------------ the oracle ---------------------------- *)

\* A direct call of Client::detect_cache_behavior on a URL, against a
\* target that may answer anything.
OracleHeaders1 ==
    Headers({"absent", "HIT", "MISS"}, {"absent", "HIT"}, {"absent", "0"},
            {None} \cup {Some(v) : v \in CcValues})

OracleHeaders2 == {NoHeaders, Hit, NoStore}

\* dyn-<n> is the body a target gives its n-th request.
OracleBodies == {"Welcome home", "dyn-1", "dyn-2"}

OracleCall(at) ==
    [at |-> at, headers1 |-> NoHeaders, body1 |-> "", headers2 |-> NoHeaders,
     body2 |-> "", status |-> "none", gets |-> 0, a |-> "none", b |-> "none"]

OracleInit ==
    /\ threads = 1
    /\ permits = threads
    /\ target = HttpTarget
    /\ env = Wild
    /\ phase = "oracle"
    /\ pc = [f \in Families |-> "idle"]
    /\ idx = [f \in Families |-> 1]
    /\ sub = [f \in Families |-> 0]
    /\ loc = [f \in Families |-> NoLoc]
    /\ found = [f \in Families |-> <<>>]
    /\ inner = [f \in Families |-> <<>>]
    /\ cached_times = 0
    /\ uncached_times = 0
    /\ livenessGets = 0
    /\ probeGets = 0
    /\ completed = None
    /\ requests_sent = 0
    /\ result = None
    /\ verr = "none"
    /\ oracle = OracleCall("probe_a")
    /\ client = NoClient
    /\ severity_call = NoSeverityCall
    /\ rate_limit = MaxRate
    /\ window = 0
    /\ warned = FALSE
    /\ first = None

oracleUnchanged ==
    <<threads, permits, target, env, phase, verr, requests_sent, result, pc, idx,
      sub, loc, found, inner, cached_times, uncached_times, livenessGets,
      probeGets, completed, client, severity_call, rate_limit, window, warned, first>>

\* Probe A: the request, then the body read as text; either may fail.
\* gets counts the GETs of the call; a and b keep what became of each probe.
oracle_probe_a ==
    /\ oracle.at = "probe_a"
    /\ \E r \in [sent : BOOLEAN, text : BOOLEAN, headers : OracleHeaders1,
                 body : OracleBodies] :
         oracle' = IF probe_failed(r)
                   THEN [OracleCall("err") EXCEPT !.gets = 1, !.a = outcome(r)]
                   ELSE [oracle EXCEPT !.at = "settle", !.headers1 = r.headers,
                                       !.body1 = r.body, !.gets = 1,
                                       !.a = outcome(r)]
    /\ UNCHANGED oracleUnchanged

\* The sleep of 100 ms between the probes.
oracle_settle ==
    /\ oracle.at = "settle"
    /\ oracle' = [oracle EXCEPT !.at = "probe_b"]
    /\ UNCHANGED oracleUnchanged

\* Probe B, and the decision.
oracle_probe_b ==
    /\ oracle.at = "probe_b"
    /\ \E r \in [sent : BOOLEAN, text : BOOLEAN, headers : OracleHeaders2,
                 body : OracleBodies] :
         oracle' = IF probe_failed(r)
                   THEN [OracleCall("err") EXCEPT !.gets = oracle.gets + 1,
                                                  !.a = oracle.a, !.b = outcome(r)]
                   ELSE [oracle EXCEPT
                           !.at = "done", !.headers2 = r.headers, !.body2 = r.body,
                           !.gets = oracle.gets + 1, !.b = outcome(r),
                           !.status = cache_status(oracle.headers1, oracle.body1, r.body)]
    /\ UNCHANGED oracleUnchanged

OracleNext == oracle_probe_a \/ oracle_settle \/ oracle_probe_b

OracleSpec == OracleInit /\ [][OracleNext]_vars

\* detect_cache_behavior is called on its own, or by the probes of an entry
\* point.
CallSpec == (OracleInit \/ ProbeInit) /\ [][OracleNext \/ ProbeNext]_vars

(* ------------------------------ the client ---------------------------- *)

DEFAULT_USER_AGENT == "Web-Cache-Scanner/1.0 (Nsisong Labs)"

\* A header line or a cookie given on the command line is a sequence of
\* pieces of text, each separator being a piece of its own.  "a0x0Ab" is a
\* value with a line feed in it.
HeaderLines ==
    {<<"User-Agent", ":">>, <<"User-Agent", ":", " curl/8 ">>,
     <<"X-Cache-Key", ":", " mine ">>, <<"x-cache-key", ":", "other">>,
     <<"Cookie", ":", "c=1">>, <<"Bad Name", ":", "v">>,
     <<"X-Cache-Key", ":", "a0x0Ab">>, <<"X-Url">>,
     <<"X-Url", ":", "http", ":", "//a">>}

CookieLines ==
    {<<"sid", "=", "1">>, <<"sid", "=", "2">>, <<"theme", "=", "a", "=", "b">>,
     <<"noequals">>}

RECURSIVE join(_)
join(pieces) == IF pieces = <<>> THEN "" ELSE Head(pieces) \o join(Tail(pieces))

\* str::splitn(2, sep): the text before the first separator and the text
\* after it, or the whole text when it has no separator.
splitn2(pieces, sep) ==
    IF \A i \in 1..Len(pieces) : pieces[i] # sep THEN <<join(pieces)>>
    ELSE LET k == CHOOSE i \in 1..Len(pieces) :
                      pieces[i] = sep /\ \A j \in 1..(i - 1) : pieces[j] # sep
         IN <<join(SubSeq(pieces, 1, k - 1)), join(SubSeq(pieces, k + 1, Len(pieces)))>>

trim(text) ==
    CASE text = " curl/8 " -> "curl/8"
      [] text = " mine " -> "mine"
      [] OTHER -> text

\* str::to_lowercase and the lower case of HeaderName, on the names in use.
to_lowercase(name) ==
    CASE name = "User-Agent" -> "user-agent"
      [] name = "X-Cache-Key" -> "x-cache-key"
      [] name = "Cookie" -> "cookie"
      [] name = "X-Url" -> "x-url"
      [] name = "Cache-Control" -> "cache-control"
      [] name = "Vary" -> "vary"
      [] name = "X-Forwarded-Host" -> "x-forwarded-host"
      [] name = "X-Forwarded-Proto" -> "x-forwarded-proto"
      [] name = "X-Host" -> "x-host"
      [] name = "X-Forwarded-Server" -> "x-forwarded-server"
      [] name = "X-HTTP-Host-Override" -> "x-http-host-override"
      [] name = "X-Original-URL" -> "x-original-url"
      [] name = "X-Rewrite-URL" -> "x-rewrite-url"
      [] name = "X-Custom-IP-Authorization" -> "x-custom-ip-authorization"
      [] OTHER -> name

\* HeaderName::from_bytes and HeaderValue::from_str: whether they accept.
valid_header_name(name) == name \notin {"Bad Name", ""}
valid_header_value(value) == value # "a0x0Ab"

HeaderNames ==
    {"user-agent", "x-cache-key", "cookie", "x-url", "cache-control", "vary"}
        \cup {to_lowercase(test_headers[i]) : i \in 1..Len(test_headers)}

CookieNames == {"sid", "theme"}

\* A HeaderMap: the values of each name, in the order they were added.
HeaderMap_new == [name \in HeaderNames |-> <<>>]

\* An insert that keeps the values the name already has.
insert_keeping(map, name, value) == [map EXCEPT ![name] = Append(@, value)]

\* HeaderMap::insert: the value replaces every value the name has.
insert(map, name, value) == [map EXCEPT ![name] = <<value>>]

\* HeaderMap::append, which RequestBuilder::header does.
append(map, name, value) == [map EXCEPT ![name] = Append(@, value)]

ClientBuilder_new ==
    [headers |-> insert(HeaderMap_new, "user-agent", DEFAULT_USER_AGENT),
     cookies |-> [name \in CookieNames |-> None]]

Err == [ok |-> FALSE]
Ok(builder) == [ok |-> TRUE, builder |-> builder]

add_header(builder, name, value) ==
    IF ~valid_header_name(name) \/ ~valid_header_value(value) THEN Err
    ELSE Ok([builder EXCEPT !.headers = insert(@, to_lowercase(name), value)])

\* add_headers: a line without a colon is skipped with a warning; the first
\* line add_header rejects ends the loop with its error.
RECURSIVE add_headers(_, _)
add_headers(builder, headers) ==
    IF headers = <<>> THEN Ok(builder)
    ELSE LET parts == splitn2(Head(headers), ":")
         IN IF Len(parts) # 2 THEN add_headers(builder, Tail(headers))
            ELSE LET added == add_header(builder, trim(parts[1]), trim(parts[2]))
                 IN IF added.ok THEN add_headers(added.builder, Tail(headers))
                    ELSE Err

RECURSIVE add_cookies(_, _)
add_cookies(builder, cookies) ==
    IF cookies = <<>> THEN builder
    ELSE LET parts == splitn2(Head(cookies), "=")
         IN IF Len(parts) # 2 THEN add_cookies(builder, Tail(cookies))
            ELSE add_cookies([builder EXCEPT !.cookies[parts[1]] = Some(parts[2])],
                             Tail(cookies))

\* The header overlays the probes give to get_with_headers.
unkeyed_overlay(i) ==
    insert(HeaderMap_new, to_lowercase(test_headers[i]), "evil-domain.com")

key_overlay(i) ==
    insert(HeaderMap_new, to_lowercase(key_cases[i].header), key_cases[i].value)

Overlays ==
    {unkeyed_overlay(i) : i \in 1..Len(test_headers)}
        \cup {key_overlay(i) : i \in 1..Len(key_cases)}

\* The values of one name of the overlay, inserted one after the other.
RECURSIVE insert_all(_, _, _)
insert_all(map, name, values) ==
    IF values = <<>> THEN map
    ELSE insert_all(insert(map, name, Head(values)), name, Tail(values))

\* The loop of get_with_headers over the entries of the overlay.
RECURSIVE combine(_, _, _)
combine(combined_headers, headers, names) ==
    IF names = {} THEN combined_headers
    ELSE LET name == CHOOSE n \in names : TRUE
         IN combine(insert_all(combined_headers, name, headers[name]), headers,
                    names \ {name})

combined(baseline, headers) == combine(baseline, headers, HeaderNames)

\* The orders in which a HashMap can iterate over its keys.
Orders(keys) ==
    {order \in [1..Cardinality(keys) -> keys] :
        \A i, j \in 1..Cardinality(keys) : i # j => order[i] # order[j]}

RECURSIVE joined(_, _)
joined(cookies, order) ==
    IF order = <<>> THEN ""
    ELSE Head(order) \o "=" \o cookies[Head(order)][1]
         \o (IF Len(order) > 1 THEN "; " ELSE "") \o joined(cookies, Tail(order))

\* The cookie_str that get can build.
cookie_strs(cookies) ==
    {joined(cookies, order) :
        order \in Orders({name \in CookieNames : cookies[name] # None})}

\* The headers of the request that get sends.
get_headers(c) ==
    IF \A name \in CookieNames : c.cookies[name] = None THEN {c.headers}
    ELSE {append(c.headers, "cookie", cookie_str) : cookie_str \in cookie_strs(c.cookies)}

\* The headers of the request that get_with_headers sends.
get_with_headers_headers(c, headers) == combined(c.headers, headers)

LinesUpTo(lines) == SeqsUpTo(lines, MaxLines)

\* Scanner::new is called with header lines and cookies.
ClientInit ==
    /\ threads = 1
    /\ permits = threads
    /\ target = HttpTarget
    /\ env = Quiet
    /\ phase = "client"
    /\ pc = [f \in Families |-> "idle"]
    /\ rate_limit = MaxRate
    /\ InitLocals
    /\ NoOracle
    /\ severity_call = NoSeverityCall
    /\ \E headers \in LinesUpTo(HeaderLines), cookies \in LinesUpTo(CookieLines) :
         client = [at |-> "new", headers |-> headers, cookies |-> cookies]

clientUnchanged ==
    <<threads, permits, target, env, phase, verr, requests_sent, result, pc, idx,
      sub, loc, found, inner, cached_times, uncached_times, livenessGets,
      probeGets, completed, oracle, severity_call, rate_limit, window, warned, first>>

\* Scanner::new: the builder, add_headers, add_cookies, build.
Scanner_new ==
    /\ client.at = "new"
    /\ LET added == add_headers(ClientBuilder_new, client.headers)
       IN client' =
            IF ~added.ok THEN [at |-> "failed"]
            ELSE LET builder == add_cookies(added.builder, client.cookies)
                 IN [at |-> "built", headers |-> builder.headers,
                     cookies |-> builder.cookies, sent |-> None]
    /\ UNCHANGED clientUnchanged

\* Client::get sends a request.
get ==
    /\ client.at = "built"
    /\ \E sent \in get_headers(client) :
         client' = [client EXCEPT !.sent = Some([via |-> "get", overlay |-> HeaderMap_new,
                                                 headers |-> sent])]
    /\ UNCHANGED clientUnchanged

\* Client::get_with_headers sends a request.
get_with_headers ==
    /\ client.at = "built"
    /\ \E headers \in Overlays :
         client' = [client EXCEPT
                      !.sent = Some([via |-> "get_with_headers", overlay |-> headers,
                                     headers |-> get_with_headers_headers(client, headers)])]
    /\ UNCHANGED clientUnchanged

ClientNext == Scanner_new \/ get \/ get_with_headers

ClientSpec == ClientInit /\ [][ClientNext]_vars

(* ------------------------------- claims ------------------------------- *)

Returned == phase = "returned"
Findings == result[1].vulnerabilities
Holders == {f \in Families : Holding(f)}
Key(v) == <<v.vulnerability_type, v.url, v.description>>

\* C1: in every successful scan, requests_sent of the ScanResult is the
\* number of GETs the scan issued: the liveness GET and every request of
\* every family, oracle probes included.
C1_RequestsSentCountsEveryGet ==
    Returned => result[1].requests_sent = livenessGets + probeGets

\* C2: no two findings of a returned ScanResult have the same
\* (kind, url, description).
C2_NoDuplicateFindings ==
    Returned =>
        \A i, j \in 1..Len(Findings) : i < j => Key(Findings[i]) # Key(Findings[j])

\* C3: every finding a probe emits has the severity that from_cvss gives
\* for its CVSS score.
C3_SeverityFromCvss ==
    \A f \in Families :
        /\ \A i \in 1..Len(found[f]) :
               found[f][i].severity = from_cvss(found[f][i].cvss_score)
        /\ \A i \in 1..Len(inner[f]) :
               inner[f][i].severity = from_cvss(inner[f][i].cvss_score)

\* C4: once validation has succeeded, scan eventually returns a ScanResult,
\* for every concurrency a Scanner can be constructed with.
C4_ScanReturns == (phase = "running") ~> Returned

\* C5: the families that hold a permit are never more than the concurrency,
\* a request is issued only by a family that holds a permit, and with a
\* concurrency of 1 the families run one at a time.
C5_PermitsCapFamilies ==
    /\ [](/\ Cardinality(Holders) <= threads
          /\ permits = threads - Cardinality(Holders)
          /\ threads = 1 => Cardinality(Holders) <= 1)
    /\ [][probeGets' # probeGets =>
            \E f \in Holders :
                /\ <<pc[f], idx[f], sub[f]>> # <<pc'[f], idx'[f], sub'[f]>>
                /\ \A g \in Families \ {f} :
                       <<pc[g], idx[g], sub[g]>> = <<pc'[g], idx'[g], sub'[g]>>]_vars

\* C5 witness: with a concurrency of 2, two families hold the permits and
\* have issued requests while a third waits for a permit.
C5_Witness ==
    /\ threads = 2
    /\ Cardinality(Holders) = 2
    /\ probeGets > 1
    /\ \E f \in Families : pc[f] = "acquire"

\* The families a finding of this kind can come from.
Sources(kind) ==
    CASE kind = "CachePoisoning" -> {"Poisoning"}
      [] kind = "CacheDeception" -> {"Deception"}
      [] kind = "CacheTiming" -> {"Timing"}
      [] kind = "CacheKeyManipulation" -> {"Poisoning", "KeyManipulation"}
      [] kind = "CacheProbing" -> {"Probing"}

RECURSIVE TotalFound(_)
TotalFound(fs) ==
    IF fs = {} THEN 0
    ELSE LET f == CHOOSE g \in fs : TRUE
         IN Len(found[f]) + TotalFound(fs \ {f})

IsPartOf(part, whole) ==
    \E k \in 0..(Len(whole) - Len(part)) : SubSeq(whole, k + 1, k + Len(part)) = part

\* C6: a family that failed with a transport error does not stop the scan
\* and gives the ScanResult none of its findings, those collected before
\* the error included; the findings of every family that returned Ok are
\* all in the result.
C6_FailedFamilyGivesNothing ==
    /\ (phase = "running" /\ \E f \in Families : pc[f] = "err") => ENABLED Next
    /\ Returned =>
        /\ \A f \in Families : pc[f] = "ok" => IsPartOf(found[f], Findings)
        /\ Len(Findings) = TotalFound({f \in Families : pc[f] = "ok"})
        /\ \A i \in 1..Len(Findings) :
               \E f \in Sources(Findings[i].vulnerability_type) : pc[f] = "ok"

\* C6 witness: a scan has returned although a family failed after it had
\* collected a finding, and another family returned findings.
C6_Witness ==
    /\ Returned
    /\ \E f \in Families : pc[f] = "err" /\ found[f] # <<>>
    /\ \E f \in Families : pc[f] = "ok" /\ found[f] # <<>>

\* C7: a scan whose validation failed returns an error: no ScanResult, no
\* permit taken, no family submitted, no probe request; a target that does
\* not parse or has a rejected scheme gets no liveness GET.  A validated
\* scan has issued exactly one liveness GET, before any probe request.
C7_ValidationGatesTheScan ==
    /\ phase = "failed" =>
        /\ verr # "none"
        /\ result = None
        /\ permits = threads
        /\ probeGets = 0
        /\ \A f \in Families : pc[f] = "idle"
    /\ (~target.parses \/ target.scheme = Ftp) => livenessGets = 0
    /\ verr \in {"Invalid URL provided", "Only HTTP/HTTPS URLs are supported"}
           => livenessGets = 0
    /\ phase \in {"start", "liveness"} => probeGets = 0 /\ permits = threads
    /\ phase \in {"running", "returned"} => livenessGets = 1 /\ verr = "none"
    /\ livenessGets <= 1

\* C7 witness: the liveness GET of a scan timed out and the scan failed.
C7_Witness ==
    /\ phase = "failed"
    /\ verr = "Connection timed out"
    /\ livenessGets = 1

\* C8: validate_target accepts a target only if its scheme is exactly http
\* or https; a target with another scheme fails with the invalid-target
\* error.
C8_OnlyHttpAndHttps ==
    /\ phase \in {"running", "returned"} => target.scheme \in {Http, Https}
    /\ (phase = "failed" /\ target.parses /\ target.scheme \notin {Http, Https})
           => verr = "Only HTTP/HTTPS URLs are supported"

\* Whether the cache-control of a response has this directive text.
CacheControlHas(headers, text) ==
    /\ headers.cache_control # None
    /\ \E i \in 1..Len(headers.cache_control[1]) :
           chunk_contains(headers.cache_control[1][i], text)

Forbidden(headers) ==
    CacheControlHas(headers, "no-store") \/ CacheControlHas(headers, "no-cache")

\* C9: whenever the oracle returns Cached, probe A carried a hint header,
\* the two bodies were equal, and probe A's cache-control contained neither
\* no-store nor no-cache.
C9_CachedHasHintAndNoNoStore ==
    (oracle.at = "done" /\ oracle.status = "Cached") =>
        /\ \/ oracle.headers1.x_cache # "absent"
           \/ oracle.headers1.cf_cache_status # "absent"
           \/ oracle.headers1.age # "absent"
           \/ oracle.headers1.cache_control # None
        /\ oracle.body1 = oracle.body2
        /\ ~Forbidden(oracle.headers1)

\* C10: the oracle returns Dynamic if the bodies differ; else NotCached if
\* probe A's cache-control contains no-store or no-cache; else Cached if
\* probe A has x-cache, cf-cache-status or age; else PotentiallyCached.
C10_OracleDecisionTable ==
    oracle.at = "done" =>
        oracle.status =
            IF oracle.body1 # oracle.body2 THEN "Dynamic"
            ELSE IF Forbidden(oracle.headers1) THEN "NotCached"
            ELSE IF \/ oracle.headers1.x_cache # "absent"
                    \/ oracle.headers1.cf_cache_status # "absent"
                    \/ oracle.headers1.age # "absent"
                 THEN "Cached"
            ELSE "PotentiallyCached"

\* A direct call of the oracle has both probes answered by a target that
\* puts Cache-Control: no-store and the body dyn-<request id> on every
\* response.
NoStoreDynAnswers ==
    /\ oracle.at = "done"
    /\ oracle.headers1 = NoStore
    /\ oracle.headers2 = NoStore
    /\ oracle.body1 = "dyn-1"
    /\ oracle.body2 = "dyn-2"

\* C11 as claimed: against a target that answers every request with
\* Cache-Control: no-store and a body that differs per request, the oracle
\* returns NotCached.
C11_NoStoreDynIsNotCached ==
    NoStoreDynAnswers => oracle.status = "NotCached"

\* C11 amended: against a target that answers every request with
\* Cache-Control: no-store and a body that differs per request, the oracle
\* returns Dynamic: the bodies are compared before any header is read.
C11_NoStoreDynIsDynamic ==
    NoStoreDynAnswers => oracle.status = "Dynamic"

\* C11 witness: the oracle has decided on such a target.
C11_Witness ==
    NoStoreDynAnswers /\ oracle.status = "Dynamic"

\* The value split at its commas.
RECURSIVE CommaSplit(_)
CommaSplit(chunks) ==
    IF chunks = <<>> THEN << <<>> >>
    ELSE LET rest == CommaSplit(Tail(chunks))
         IN IF Head(chunks) = "," THEN << <<>> >> \o rest
            ELSE << <<Head(chunks)>> \o rest[1] >> \o Tail(rest)

RECURSIVE TrimStart(_)
TrimStart(d) == IF d # <<>> /\ Head(d) = " " THEN TrimStart(Tail(d)) ELSE d

RECURSIVE TrimEnd(_)
TrimEnd(d) ==
    IF d # <<>> /\ d[Len(d)] = " " THEN TrimEnd(SubSeq(d, 1, Len(d) - 1)) ELSE d

\* Whether one of the comma-separated, trimmed directives of the value is
\* no-store or no-cache.
HasForbiddenDirective(chunks) ==
    LET parts == CommaSplit(chunks)
    IN \E i \in 1..Len(parts) :
           TrimEnd(TrimStart(parts[i])) \in {<<"no-store">>, <<"no-cache">>}

\* A cache-control of one header line of visible ASCII.
OneVisibleLine(chunks) ==
    \A i \in 1..Len(chunks) : chunks[i] \notin {"0xE9", "CRLF"}

\* C12: with equal bodies and a cache-control of one line of visible ASCII
\* on probe A, the oracle returns NotCached exactly when one of the
\* comma-separated, trimmed directives of the value is no-store or
\* no-cache; the words inside some other directive do not count.
C12_DirectivesCommaSplitTrimmed ==
    (/\ oracle.at = "done"
     /\ oracle.body1 = oracle.body2
     /\ oracle.headers1.cache_control # None
     /\ OneVisibleLine(oracle.headers1.cache_control[1]))
        => (oracle.status = "NotCached"
                <=> HasForbiddenDirective(oracle.headers1.cache_control[1]))

\* The Client has sent a request.
HasSent == client.at = "built" /\ client.sent # None
Sent == client.sent[1]

\* C13: no request that get or get_with_headers sends has an empty
\* User-Agent header, whatever header lines the ClientBuilder accepted.
C13_UserAgentNeverEmpty ==
    HasSent =>
        /\ Sent.headers["user-agent"] # <<>>
        /\ \A i \in 1..Len(Sent.headers["user-agent"]) :
               Sent.headers["user-agent"][i] # ""

\* C14: the headers get_with_headers sends are the baseline headers
\* overridden by the overlay: a name the overlay has is sent with the
\* overlay's value alone, whatever the case the baseline line wrote the name
\* in; every other name is sent with its baseline value; and no request
\* changes the headers and cookies the Client keeps.
C14_OverlayOverridesBaseline ==
    /\ [](HasSent /\ Sent.via = "get_with_headers" =>
            \A name \in HeaderNames :
                Sent.headers[name] =
                    IF Sent.overlay[name] # <<>> THEN Sent.overlay[name]
                    ELSE client.headers[name])
    /\ [][client.at = "built" =>
            /\ client'.at = "built"
            /\ client'.headers = client.headers
            /\ client'.cookies = client.cookies]_vars

\* C14 witness: the baseline has x-cache-key from a line that wrote the name
\* in lower case, and the overlay of the Cache-Key Override case was sent
\* over it, next to the default User-Agent of the baseline.
C14_Witness ==
    /\ HasSent
    /\ Sent.via = "get_with_headers"
    /\ client.headers["x-cache-key"] = <<"other">>
    /\ Sent.overlay = key_overlay(1)
    /\ Sent.headers["x-cache-key"] = <<"custom-key">>
    /\ Sent.headers["user-agent"] = <<DEFAULT_USER_AGENT>>

\* C15: when the Client has cookies, every request it sends, by get and by
\* get_with_headers alike, has them joined as k=v pairs in one Cookie header.
C15_EveryRequestCarriesCookies ==
    (HasSent /\ \E name \in CookieNames : client.cookies[name] # None) =>
        /\ Len(Sent.headers["cookie"]) = 1
        /\ Sent.headers["cookie"][1] \in cookie_strs(client.cookies)

\* C16: with a rate limit R, the scan issues no more than R requests within
\* one second, however many families run.
C16_RateLimitCapsRequests ==
    window <= rate_limit

NotTiming(kinds) == kinds \ {"CacheTiming"}

\* C17: a second scan of a target whose response is a function of the
\* request returns the finding kinds of the first, the timing kind set
\* aside, whatever the interleaving of the families in either scan and
\* whatever the concurrency.
C17_SameKindsOnRescan ==
    (Returned /\ first # None) =>
        NotTiming(Kinds(Findings)) = NotTiming(first[1])

\* C17 witness: with a concurrency of 2, a second scan has returned findings
\* of several kinds.
C17_Witness ==
    /\ Returned
    /\ first # None
    /\ threads = 2
    /\ Cardinality(NotTiming(Kinds(Findings))) > 2

\* The order of the severities, Info the lowest.
Rank(severity) ==
    CASE severity = "Info" -> 0 [] severity = "Low" -> 1 [] severity = "Medium" -> 2
      [] severity = "High" -> 3 [] severity = "Critical" -> 4

\* C18: from_cvss returns a severity for every score of 0.0 to 10.0:
\* Critical from 9.0, High from 7.0 to below 9.0, Medium from 4.0 to below
\* 7.0, Low from 0.1 to below 4.0, Info below 0.1; and no lower score gets a
\* higher severity.
C18_FromCvssThresholds ==
    severity_call.at = "returned" =>
        LET c == severity_call.score
            severity == severity_call.severity
        IN /\ severity \in {"Critical", "High", "Medium", "Low", "Info"}
           /\ severity = "Critical" <=> c >= 90
           /\ severity = "High" <=> (70 <= c /\ c < 90)
           /\ severity = "Medium" <=> (40 <= c /\ c < 70)
           /\ severity = "Low" <=> (1 <= c /\ c < 40)
           /\ severity = "Info" <=> c < 1
           /\ \A lower \in 0..c : Rank(from_cvss(lower)) <= Rank(severity)

\* C18 witness: the score 7.0, on a threshold, got High.
C18_Witness ==
    /\ severity_call.at = "returned"
    /\ severity_call.score = 70
    /\ severity_call.severity = "High"

\* C19: once the scan is cancelled, whether before, during or between the
\* requests of the families, no family holds a permit or goes on, the
\* semaphore has its T permits again, and no further request is issued.
C19_CancelReleasesPermits ==
    /\ [](phase = "cancelled" =>
            /\ permits = threads
            /\ \A f \in Families : ~Holding(f) /\ pc[f] # "acquire"
            /\ ~ENABLED Next)
    /\ [][phase = "cancelled" =>
            /\ probeGets' = probeGets
            /\ livenessGets' = livenessGets
            /\ pc' = pc]_vars

\* C19 witness: the scan was cancelled while two families held the two
\* permits, between their requests, and a third waited for one.
C19_Witness ==
    /\ phase = "cancelled"
    /\ threads = 2
    /\ permits = 2
    /\ Cardinality({f \in Families : pc[f] = "abandoned"}) = 2
    /\ \E f \in Families : pc[f] = "dropped"
    /\ probeGets > 1

\* C20: a target whose liveness GET is answered with a status other than
\* 2xx passes validation: the five families are submitted and, once they
\* have their results, scan returns a ScanResult.  Validation of an http(s)
\* URL fails only by a transport error or a timeout of the liveness GET.
C20_Non2xxPassesValidation ==
    /\ warned =>
        /\ phase \in {"running", "returned"}
        /\ verr = "none"
        /\ \A f \in Families : pc[f] # "idle"
    /\ (warned /\ phase = "running" /\ join_all_ready) => ENABLED Join
    /\ (warned /\ Returned) => result # None
    /\ (target.parses /\ target.scheme \in {Http, Https}
            /\ env.live \subseteq {"response", "non2xx"}) => phase # "failed"
    /\ (phase = "failed" /\ livenessGets = 1) =>
        /\ env.live \cap {"error", "timeout"} # {} \/ target.scheme \notin {Http, Https}
        /\ verr \in {"Connection timed out", "Failed to connect to target"}

\* C20 witness: the liveness GET was answered with a status other than 2xx,
\* the five families ran and the scan returned its ScanResult.
C20_Witness ==
    /\ warned
    /\ Returned
    /\ result # None
    /\ \A f \in Families : Finished(f)
    /\ probeGets > 0

\* C21: a family takes one permit before its first request and gives it
\* back when its entry point returns, with findings or with an error: the
\* permits available are 0..T in every state, and T again once scan, or an
\* entry point called on its own, has returned.
C21_PermitReleasedOnEveryExit ==
    /\ [](/\ permits \in 0..threads
          /\ Returned => permits = threads
          /\ (\A f \in Families : pc[f] \in {"idle", "ok", "err"}) => permits = threads)
    /\ [][/\ \A f \in Families :
               (pc[f] = "acquire" /\ pc'[f] # "acquire") => probeGets' = probeGets
          /\ permits' = permits
                - Cardinality({f \in Families : pc[f] = "acquire" /\ Holding(f)'})
                + Cardinality({f \in Families : Holding(f) /\ Finished(f)'})]_vars

\* C21 witness: a scan with one permit has returned, one family having
\* failed and another having returned findings, and the permit is back.
C21_Witness ==
    /\ Returned
    /\ threads = 1
    /\ permits = 1
    /\ \E f \in Families : pc[f] = "err"
    /\ \E f \in Families : pc[f] = "ok" /\ Len(found[f]) > 1

\* What scan would return had it appended the vectors of the first n
\* families of the log, in the order of the log.
RECURSIVE InCompletionOrder(_)
InCompletionOrder(n) ==
    IF n = 0 THEN <<>> ELSE InCompletionOrder(n - 1) \o Collected(completed[1][n])

Position(f) == <<pc[f], idx[f], sub[f], loc[f], found[f], inner[f]>>

\* C23: a family issues its requests one after the other, each after the
\* response or the error of the one before; the timing probe issues its
\* SAMPLE_SIZE plain requests before its first cache-busting request, and
\* the cache-busting requests with cb = 0, 1, ..., 9 in that order.
C23_RequestsOfAFamilyInSequence ==
    /\ [](pc["Timing"] = "timing" =>
            /\ idx["Timing"] \in 1..(2 * SAMPLE_SIZE)
            /\ \A i \in 1..idx["Timing"] :
                  timing_query(i) = IF i <= 10 THEN None ELSE Some(i - 11))
    /\ [][/\ probeGets' \in {probeGets, probeGets + 1}
          /\ probeGets' = probeGets + 1 =>
                Cardinality({f \in Families : Position(f)' # Position(f)}) = 1
          /\ (pc["Timing"] = "timing" /\ Position("Timing")' # Position("Timing")) =>
                /\ probeGets' = probeGets + 1
                /\ \/ pc'["Timing"] = "timing" /\ idx'["Timing"] = idx["Timing"] + 1
                   \/ pc'["Timing"] = "err"
                   \/ pc'["Timing"] = "ok" /\ idx["Timing"] = 20]_vars

\* C23 witness: the timing probe has issued its ten plain requests and nine
\* of its cache-busting requests, and cb = 9 is next.
C23_Witness ==
    /\ pc["Timing"] = "timing"
    /\ idx["Timing"] = 20
    /\ timing_query(20) = Some(9)
    /\ probeGets >= 19

CacheBehaviors == {"Cached", "NotCached", "PotentiallyCached", "Dynamic"}

\* C24: one classification by the oracle issues probe A, waits, and issues
\* probe B, two GETs when both go well; when probe A fails, on the request or
\* on reading the body, probe B is not issued; when either fails the oracle
\* returns an error and no CacheBehavior, and the probe that called it emits
\* no finding for that classification.
C24_OracleProbesInOrder ==
    /\ [](oracle.at # "idle" =>
          /\ oracle.at = "probe_a" =>
                oracle.gets = 0 /\ oracle.a = "none" /\ oracle.b = "none"
          /\ oracle.at \in {"settle", "probe_b"} =>
                oracle.gets = 1 /\ oracle.a = "ok" /\ oracle.b = "none"
          /\ oracle.at = "done" =>
                /\ oracle.gets = 2 /\ oracle.a = "ok" /\ oracle.b = "ok"
                /\ oracle.status \in CacheBehaviors
          /\ oracle.a \in {"send failed", "read failed"} =>
                oracle.at = "err" /\ oracle.gets = 1 /\ oracle.b = "none"
          /\ oracle.b \in {"send failed", "read failed"} =>
                oracle.at = "err" /\ oracle.gets = 2 /\ oracle.a = "ok"
          /\ oracle.at = "err" => oracle.status = "none")
    /\ [][/\ oracle'.at # oracle.at =>
                <<oracle.at, oracle'.at>> \in
                    {<<"probe_a", "settle">>, <<"settle", "probe_b">>,
                     <<"probe_b", "done">>, <<"probe_a", "err">>,
                     <<"probe_b", "err">>}
          /\ \A f \in Families :
                (pc[f] \in {"keymanip", "probing"} /\ Position(f)' # Position(f)) =>
                    /\ (Len(found'[f]) > Len(found[f]) \/ Len(inner'[f]) > Len(inner[f]))
                           => sub[f] = 2 /\ pc'[f] # "err"
                    /\ pc'[f] = "err" =>
                           /\ found'[f] = found[f]
                           /\ inner'[f] = <<>>
                           /\ Collected(f)' = <<>>]_vars

\* C24 witness: the body of probe A could not be read; the oracle has
\* failed after one GET.
C24_Witness ==
    /\ oracle.at = "err"
    /\ oracle.a = "read failed"
    /\ oracle.gets = 1

Min(S) == CHOOSE x \in S : \A y \in S : x <= y

\* The requests a first-match probe issues for a list of n payloads of which
\* those in S are answered positively.
RequestsUntil(S, n) == IF S = {} THEN n ELSE Min(S)

Named(v) ==
    <<v.vulnerability_type, v.description, v.proof_of_concept, v.severity,
      v.cvss_score>>

UnkeyedNamed(S) ==
    IF S = {} THEN <<>>
    ELSE <<(<<"CachePoisoning",
              "Unkeyed header " \o test_headers[Min(S)] \o " is reflected in the response",
              "curl -H '" \o test_headers[Min(S)] \o ": evil-domain.com' http://target/",
              "High", 75>>)>>

CloakingNamed(S) ==
    IF S = {} THEN <<>>
    ELSE <<(<<"CachePoisoning", "Parameter cloaking vulnerability detected",
              "curl 'http://target/" \o cloaking_cases[Min(S)] \o "'", "High", 70>>)>>

PathNamed(S) ==
    IF S = {} THEN <<>>
    ELSE <<(<<"CacheDeception", "Path confusion vulnerability detected",
              "curl 'http://target" \o test_paths[Min(S)] \o "'", "High", 65>>)>>

ExtensionNamed(S) ==
    IF S = {} THEN <<>>
    ELSE <<(<<"CacheDeception",
              "Content-Type confusion with " \o test_extensions[Min(S)] \o " extension",
              "curl 'http://target/" \o test_extensions[Min(S)] \o "'", "Medium", 55>>)>>

IsPoisoning(v) == v.vulnerability_type = "CachePoisoning"

NamedAll(vulns) == [i \in 1..Len(vulns) |-> Named(vulns[i])]

\* C25: a first-match probe tries its payloads in the order of its list, one
\* request each, and stops at the first positive response; it emits at most
\* one finding, whose description and proof_of_concept name the payload of
\* that request.  Against a target that echoes X-Forwarded-Host only,
\* test_cache_poisoning returns one CachePoisoning finding, with the
\* proof_of_concept curl -H 'X-Forwarded-Host: evil-domain.com' <url>, High,
\* 7.5.
C25_FirstMatchNamesItsPayload ==
    /\ (~env.any /\ pc["Poisoning"] = "ok") =>
          /\ NamedAll(SelectSeq(found["Poisoning"], IsPoisoning))
                = UnkeyedNamed(env.reflect) \o CloakingNamed(env.cloak)
          /\ probeGets = RequestsUntil(env.reflect, 8) + RequestsUntil(env.cloak, 6) + 9
    /\ (~env.any /\ pc["Deception"] = "ok") =>
          /\ NamedAll(found["Deception"])
                = PathNamed(env.paths) \o ExtensionNamed(env.exts)
          /\ probeGets = RequestsUntil(env.paths, 5) + RequestsUntil(env.exts, 5)
    /\ (env = ReflectSite /\ pc["Poisoning"] = "ok") =>
          NamedAll(found["Poisoning"]) =
              <<(<<"CachePoisoning",
                   "Unkeyed header X-Forwarded-Host is reflected in the response",
                   "curl -H 'X-Forwarded-Host: evil-domain.com' http://target/",
                   "High", 75>>)>>

\* C26: the timing probe emits its finding exactly when the mean of the
\* plain samples is less than half the mean of the cache-busting samples,
\* that is when twice the sum of the plain samples is less than the sum of
\* the cache-busting samples; when every cache-busting sample is 0 it emits
\* nothing and does not fail.
C26_TimingFindingIffBelowHalf ==
    pc["Timing"] = "ok" =>
        /\ found["Timing"] # <<>> <=> 2 * cached_times < uncached_times
        /\ uncached_times = 0 => found["Timing"] = <<>>

\* What the oracle can return to family f, which has the answer to probe A,
\* when probe B is answered.
OracleReturns(f) ==
    {cache_status(loc[f].headers1, loc[f].body1, r.body) :
        r \in {q \in ProbeBResponses(f) : q.sent /\ q.text}}

\* What the oracle returns on a URL which a target that answers as a
\* function of the request serves with the given headers.
OracleOn(headers) ==
    cache_status(headers, "Welcome home", IF env.dyn THEN "dyn-2" ELSE "Welcome home")

IsIn(v, vulns) == \E i \in 1..Len(vulns) : vulns[i] = v

KeyFindingOf(case) ==
    [vulnerability_type |-> "CacheKeyManipulation", url |-> "http://target/",
     description |-> case.name \o " vulnerability detected", severity |-> "High",
     proof_of_concept |->
         "curl -H '" \o case.header \o ": " \o case.value \o "' http://target/",
     cvss_score |-> 68]

IsProbingFindingOf(v, path) ==
    /\ v.vulnerability_type = "CacheProbing"
    /\ v.url = "http://target" \o path
    /\ v.description = "Sensitive path " \o path \o " is being cached"

\* C27: test_cache_key_manipulation emits the finding of an override header
\* exactly when the oracle, run on the bare URL after the override request,
\* returned Cached; test_cache_probing emits the finding of a path exactly
\* when the GET of the path was answered 2xx and the oracle on the path
\* returned Cached, and the url of the finding is the target with that path.
\* A target for which the oracle never returns Cached gets neither finding.
C27_FindingOnlyWhenOracleSaysCached ==
    /\ [][\A f \in Families :
            (sub[f] = 2 /\ Position(f)' # Position(f) /\ pc'[f] # "err") =>
                /\ (pc[f] = "keymanip" /\ (idx[f] < Len(key_cases) \/ f = "KeyManipulation")) =>
                      LET emitted == IsIn(KeyFindingOf(key_cases[idx[f]]),
                                          inner'[f] \o found'[f])
                      IN /\ emitted => "Cached" \in OracleReturns(f)
                         /\ ~emitted => OracleReturns(f) # {"Cached"}
                /\ pc[f] = "probing" =>
                      LET emitted == Len(found'[f]) = Len(found[f]) + 1
                      IN /\ emitted =>
                               /\ loc[f].success
                               /\ "Cached" \in OracleReturns(f)
                               /\ IsProbingFindingOf(found'[f][Len(found'[f])],
                                                     probing_paths[idx[f]])
                         /\ ~emitted =>
                               /\ found'[f] = found[f]
                               /\ ~loc[f].success \/ OracleReturns(f) # {"Cached"}]_vars
    /\ []((/\ ~env.any
           /\ OracleOn(env.hdr) # "Cached"
           /\ OracleOn(env.sensHdr) # "Cached") =>
             \A f \in Families : \A i \in 1..Len(found[f]) :
                 found[f][i].vulnerability_type
                     \notin {"CacheKeyManipulation", "CacheProbing"})
    /\ []((~env.any /\ pc["KeyManipulation"] = "ok") =>
             Len(found["KeyManipulation"])
                 = IF OracleOn(env.hdr) = "Cached" THEN Len(key_cases) ELSE 0)
    /\ []((~env.any /\ pc["Probing"] = "ok") =>
             Len(found["Probing"])
                 = IF env.up /\ OracleOn(env.sensHdr) = "Cached"
                   THEN Cardinality(env.sens) ELSE 0)

\* C27 witness: test_cache_probing has returned the findings of /admin and
\* /internal, which the target answers 2xx with X-Cache: HIT.
C27_Witness ==
    /\ pc["Probing"] = "ok"
    /\ env = CachedSite
    /\ Len(found["Probing"]) = 2
    /\ IsProbingFindingOf(found["Probing"][1], "/admin")
    /\ IsProbingFindingOf(found["Probing"][2], "/internal")

\* The payloads of each probe, and the requests it issues for one payload.
PayloadsOf(probe) ==
    CASE probe = "unkeyed" -> 8 [] probe = "cloaking" -> 6 [] probe = "path" -> 5
      [] probe = "ctype" -> 5 [] probe = "timing" -> 20 [] probe = "keymanip" -> 3
      [] probe = "probing" -> 5

\* C28: a probe issues at most as many requests as it has payloads (8
\* unkeyed headers, 6 cloaking suffixes, 5 confusion paths, 5 extensions, 20
\* timing samples, 3 requests for each of 3 override headers and of 5
\* sensitive paths); each probe runs at most once in a scan, so a scan
\* issues at most 69 requests, the liveness GET included.
C28_AtMost69Requests ==
    /\ \A f \in Families :
          Holding(f) =>
              /\ idx[f] \in 1..PayloadsOf(pc[f])
              /\ sub[f] \in 0..2
              /\ sub[f] > 0 => pc[f] \in {"keymanip", "probing"}
    /\ {f \in Families : pc[f] = "keymanip"} \in {{}, {"KeyManipulation"}}
    /\ livenessGets + probeGets <= 69

KindOf(f) ==
    CASE f = "Poisoning" -> "CachePoisoning"
      [] f = "Deception" -> "CacheDeception"
      [] f = "Timing" -> "CacheTiming"
      [] f = "KeyManipulation" -> "CacheKeyManipulation"
      [] f = "Probing" -> "CacheProbing"

AtMostOf(kind) ==
    CASE kind = "CachePoisoning" -> 2 [] kind = "CacheDeception" -> 2
      [] kind = "CacheTiming" -> 1 [] kind = "CacheKeyManipulation" -> 3
      [] kind = "CacheProbing" -> 5

CountOf(kind, vulns) ==
    Cardinality({i \in 1..Len(vulns) : vulns[i].vulnerability_type = kind})

\* C29: each of the five entry points returns findings of its own kind
\* only; a scan therefore returns at most 2 CachePoisoning, 2 CacheDeception,
\* 1 CacheTiming, 3 CacheKeyManipulation and 5 CacheProbing findings.
C29_EntryPointReturnsItsOwnKind ==
    /\ \A f \in Families :
          pc[f] = "ok" =>
              \A i \in 1..Len(found[f]) : found[f][i].vulnerability_type = KindOf(f)
    /\ Returned =>
          \A f \in Families : CountOf(KindOf(f), Findings) <= AtMostOf(KindOf(f))

\* C30: what test_cache_key_manipulation returns does not depend on the
\* responses to its override requests, as long as they are sent: the probe
\* is after such a request where it was before it, whatever the response,
\* and against a target whose bare URL is answered as a function of the
\* request it returns all three findings or none, as the oracle decides on
\* the bare URL.
C30_OverrideResponseIsIgnored ==
    /\ [][\A f \in Families :
            (pc[f] = "keymanip" /\ sub[f] = 0 /\ Position(f)' # Position(f)) =>
                \/ Position(f)' = <<"keymanip", idx[f], 1, loc[f], found[f], inner[f]>>
                \/ pc'[f] = "err"]_vars
    /\ []((~env.any /\ pc["KeyManipulation"] = "ok") =>
             found["KeyManipulation"] =
                 IF OracleOn(env.hdr) = "Cached"
                 THEN [i \in 1..3 |-> KeyFindingOf(key_cases[i])]
                 ELSE <<>>)

\* C30 witness: the probe has returned its three findings for a target
\* that answers the bare URL with X-Cache: HIT.
C30_Witness ==
    /\ pc["KeyManipulation"] = "ok"
    /\ env = CachedSite
    /\ Len(found["KeyManipulation"]) = 3

====
